---- MODULE Spec2Model ----
(***************************************************************************)
(* Weighbridge telemetry of jacobmathewin/weighbridge.                     *)
(*                                                                         *)
(* Two programs are modelled.                                              *)
(*                                                                         *)
(*  1. camera_viewer.py, class CameraViewer: the weighbridge connection    *)
(*     life cycle (connect_weighbridge, disconnect_weighbridge), the two   *)
(*     background polling loops (read_weight_loop, read_weight_ascii_loop) *)
(*     and the Tk foreground, which runs the callbacks the loops post      *)
(*     with root.after(0, ...).  Specification: Spec (FairSpec adds the    *)
(*     scheduling of the loop threads).  The conversion of one successful  *)
(*     Modbus read into a sample, for any frame and scale divisor, is      *)
(*     SampleSpec.  The camera handlers and stream threads, with the       *)
(*     frame locks, are CaptureSpec.                                       *)
(*                                                                         *)
(*  2. modbus_probe.py, function probe: the register sweep.                *)
(*     Specification: ProbeSpec (FairProbeSpec adds progress).  The        *)
(*     decoders behind pretty_candidates are DecodeSpec, parse_units of    *)
(*     main is ParseSpec, and main around the sweep (connect, probe,       *)
(*     close) is MainSpec (FairMainSpec adds progress).                    *)
(*                                                                         *)
(* connect_weighbridge and disconnect_weighbridge are operations of the    *)
(* class and are modelled as callable in any order while the foreground    *)
(* is idle.  In the program itself connect_weighbridge is the command of   *)
(* a button and disconnect_weighbridge is called by on_closing only.       *)
(*                                                                         *)
(* Libraries are modelled by their contract only: a handle is opened by    *)
(* serial.Serial(...) or ModbusSerialClient.connect() returning True and   *)
(* released by close(); a read returns registers, returns an error         *)
(* response or raises.  Foreground handlers are entered from the Tk event  *)
(* loop one after the other (a sequence of calls); the callbacks posted    *)
(* with after(0, ...) run in posting order, from the event loop or from    *)
(* root.update() inside connect_weighbridge.                               *)
(***************************************************************************)
EXTENDS Integers, Sequences, FiniteSets, TLC

(* ------------------------------ bounds -------------------------------- *)

\* Polling threads alive at the same time (threading.Thread objects).
MaxThreads == 2
\* Serial handle objects that exist at the same time.
MaxHandles == 2
\* Callbacks posted with root.after and not yet run.
MaxQueue == 2
\* Largest register value / parsed sample a read returns.
MaxReg == 1
\* Consecutive failed cycles counted per loop (the count saturates).
MaxFails == 3

\* Probe sweep inputs: largest unit id, largest address, longest counts list,
\* largest count value, and the largest number of triples of one sweep.
MaxUnit == 2
MaxAddr == 1
MaxCounts == 2
MaxCount == 2
MaxSweep == 8

\* Camera stream threads alive at the same time, and the distinct images a
\* camera delivers.
MaxStreams == 3
MaxImage == 2

Threads == 1..MaxThreads
Handles == 1..MaxHandles
Regs == 0..MaxReg
None == 0

VARIABLES
    weighbridge_protocol,  \* self.weighbridge_protocol: "modbus" | "ascii"
    linkParams,            \* WEIGHBRIDGE_PARITY / _BYTESIZE / _STOPBITS of the
                           \* environment: "supported" | "unsupported"
    modbus_client,         \* self.modbus_client: None or a handle object
    serial_conn,           \* self.serial_conn: None or a handle object
    is_weight_connected,   \* self.is_weight_connected
    weight_status,         \* text of self.weight_status
    weight_display,        \* number shown by self.weight_display
    openHandles,           \* handle objects whose port is open
    fg,                    \* position of the foreground (Tk main thread)
    queue,                 \* callbacks posted with root.after(0, ...), FIFO
    pc,                    \* position of each polling thread
    result,                \* local `result` of read_weight_loop
    data,                  \* local `data` of read_weight_ascii_loop: the line read
    weight_value,          \* local `weight_value` of read_weight_loop (closure cell)
    fails,                 \* history: consecutive failed cycles of a loop
    cancelReq,             \* history: disconnect was requested while the loop ran
    target,                \* the target function of each thread: "none" | "modbus" | "ascii"
    lastConnect            \* history: how the latest connect_weighbridge call ended

guiVars == <<weighbridge_protocol, linkParams, modbus_client, serial_conn, is_weight_connected,
             weight_status, weight_display, openHandles, fg, queue, pc, result, data,
             weight_value, fails, cancelReq, target, lastConnect>>

VARIABLES
    units,          \* probe argument units: ascending list of unit ids
    address_start,  \* probe argument address_start
    address_end,    \* probe argument address_end
    counts,         \* probe argument counts: list in the given order
    ppc,            \* position of probe: "start" | "read" | "sleep" | "done"
    ui,             \* index of the current unit in units
    address,        \* current address
    ci,             \* index of the current count in counts
    resp,           \* local `resp` of probe (response of the latest read)
    results,        \* local `results` of probe
    attempts,       \* history: the (unit, address, count) of every read issued
    lastRead,       \* history: what the latest read returned or raised
    sleeps          \* history: the number of time.sleep(delay) calls made

probeVars == <<units, address_start, address_end, counts, ppc, ui, address, ci,
               resp, results, attempts, lastRead, sleeps>>

VARIABLES
    frame,    \* pretty_candidates argument registers: the frame to decode
    dpc,      \* position of pretty_candidates: "call" | "done"
    u16,      \* local u16 of pretty_candidates
    s16,      \* local s16
    u32_be,   \* local u32_be
    u32_le,   \* local u32_le
    s32_be,   \* local s32_be
    s32_le    \* local s32_le

decodeVars == <<frame, dpc, u16, s16, u32_be, u32_le, s32_be, s32_le>>

VARIABLES
    poll_frame,  \* result.registers of one successful read of read_weight_loop
    divisor,     \* local divisor: float(os.getenv('WEIGHBRIDGE_SCALE_DIVISOR', '1'))
    sample,      \* local weight_value, as the exact quotient
    spc          \* position of the decode of that read: "read" | "posted"

sampleVars == <<poll_frame, divisor, sample, spc>>

VARIABLES
    is_running,    \* self.is_running
    cap,           \* camera -> TRUE iff self.cap1 / self.cap2 holds a capture object
    latest_frame,  \* camera -> self.latest_frame1 / 2: an image, or None (0)
    frame_lock,    \* camera -> holder of self.frame_lock1 / 2: "free" | "fg" | "stream"
    stream_of,     \* stream thread -> the camera it serves, 0 when the slot is unused
    stream_pc,     \* stream thread -> "none" | "test" | "grab" | "lock" | "store"
    cam_frame,     \* stream thread -> local frame of update_camera1 / 2 (0: none)
    cfg,           \* position of the foreground inside a camera handler
    cam,           \* camera whose with-block the foreground is at
    resume,        \* where the caller of disconnect_cameras continues
    shot,          \* camera -> local frame1 / frame2 of capture_images (0: None)
    saved          \* the pair of images the last capture wrote, <<>> before any

camVars == <<is_running, cap, latest_frame, frame_lock, stream_of, stream_pc,
             cam_frame, cfg, cam, resume, shot, saved>>

VARIABLES
    unit_parts,   \* the unit specification a user means: literals and ranges
    units_str,    \* args.units, the text of --units, one character per element
    mpc,          \* position of main: "none" | "args" | "parsed" | "failed" |
                  \*   "connected" | "refused" | "raised" | "closed"
    client_open,  \* TRUE iff the port of main's client is open
    closes        \* calls of client.close() made by main

mainVars == <<unit_parts, units_str, mpc, client_open, closes>>

vars == <<guiVars, probeVars, decodeVars, sampleVars, camVars, mainVars>>

\* What a program leaves alone because it belongs to another program or to
\* another call.
besideGui == <<probeVars, decodeVars, sampleVars, camVars, mainVars>>
besideProbe == <<guiVars, decodeVars, sampleVars, camVars, mainVars>>
besideDecode == <<guiVars, probeVars, sampleVars, camVars, mainVars>>
besideSample == <<guiVars, probeVars, decodeVars, camVars, mainVars>>
besideCameras == <<guiVars, probeVars, decodeVars, sampleVars, mainVars>>
besideMain == <<guiVars, decodeVars, sampleVars, camVars>>

(* --------------------------- helper operators -------------------------- *)

Min(a, b) == IF a < b THEN a ELSE b

\* The smallest element of a non-empty set of integers.
Least(S) == CHOOSE x \in S : \A y \in S : x <= y

\* Python truthiness of `self.is_weight_connected and self.modbus_client`
\* (line 151) and `self.is_weight_connected and self.serial_conn` (line 195).
LoopCondition ==
    /\ is_weight_connected
    /\ IF weighbridge_protocol = "ascii" THEN serial_conn # None
                                         ELSE modbus_client # None

\* A thread slot that a new threading.Thread can take: no loop runs in it and
\* no posted callback still refers to its closure.
FreeSlot(t) == pc[t] = "none" /\ \A i \in 1..Len(queue) : queue[i].t # t

FreeSlots == {t \in Threads : FreeSlot(t)}

\* Handle objects not referenced and not open: a constructor call returns one.
FreeHandles == Handles \ (openHandles \cup {modbus_client, serial_conn})

\* raw = result.registers[0] if len(result.registers) > 0 else 0   (line 171)
RawOf(registers) == IF Len(registers) > 0 THEN registers[1] ELSE 0

\* What a register read hands back: kind "ok" is a response with registers,
\* "error" a response whose isError() is true, "raise" an exception (no
\* response); "none" is the local before the first read.
Response(kind, registers) == [kind |-> kind, registers |-> registers]
NoResponse == Response("none", <<>>)
IsError(r) == r.kind = "error"

\* What readline and the parsing make of one line of read_weight_ascii_loop.
Line(kind, value) == [kind |-> kind, value |-> value]
NoLine == Line("none", 0)

\* Frames a register read returns, as far as the loop inspects them
\* (their emptiness and register 0).
ReadFrames == {<<>>} \cup {<<r>> : r \in Regs}

\* One posted callback.  k = "weight": lambda: self.update_weight_display(weight_value)
\* of thread t (line 176; v records the value the posting read decoded);
\* k = "label": lambda d=display, ...: self.weight_display.config(...) (line 222);
\* k = "status": lambda: self.weight_status.config("Status: Disconnected").
WeightCallback(t, v) == [k |-> "weight", t |-> t, v |-> v]
LabelCallback(d) == [k |-> "label", t |-> 0, v |-> d]
StatusCallback == [k |-> "status", t |-> 0, v |-> 0]

\* What a callback shows when it runs: the weight lambda reads the loop's
\* variable weight_value at that time (a Python closure binds the variable,
\* not its value); the label lambda shows the value bound as default d.
ShownBy(e) == IF e.k = "weight" THEN weight_value[e.t] ELSE e.v

RECURSIVE DisplayAfter(_, _)
DisplayAfter(q, d) ==
    IF q = <<>> THEN d
    ELSE DisplayAfter(Tail(q), IF Head(q).k = "status" THEN d ELSE ShownBy(Head(q)))

RECURSIVE StatusAfter(_, _)
StatusAfter(q, s) ==
    IF q = <<>> THEN s
    ELSE StatusAfter(Tail(q), IF Head(q).k = "status" THEN "Disconnected" ELSE s)

(* ------------------------------- Init ---------------------------------- *)

GuiInit ==
    /\ weighbridge_protocol \in {"modbus", "ascii"}
    /\ linkParams \in {"supported", "unsupported"}
    /\ modbus_client = None
    /\ serial_conn = None
    /\ is_weight_connected = FALSE
    /\ weight_status = "Disconnected"
    /\ weight_display = 0
    /\ openHandles = {}
    /\ fg = "idle"
    /\ queue = <<>>
    /\ pc = [t \in Threads |-> "none"]
    /\ result = [t \in Threads |-> NoResponse]
    /\ data = [t \in Threads |-> NoLine]
    /\ weight_value = [t \in Threads |-> 0]
    /\ fails = [t \in Threads |-> 0]
    /\ cancelReq = [t \in Threads |-> FALSE]
    /\ target = [t \in Threads |-> "none"]
    /\ lastConnect = "none"

\* The probe is not running (the viewer and the probe are separate programs).
ProbeIdle ==
    /\ units = <<>>
    /\ address_start = 0
    /\ address_end = 0
    /\ counts = <<>>
    /\ ppc = "done"
    /\ ui = 0
    /\ address = 0
    /\ ci = 0
    /\ resp = NoResponse
    /\ results = <<>>
    /\ attempts = <<>>
    /\ lastRead = NoResponse
    /\ sleeps = 0

\* pretty_candidates is not being called.
DecodeIdle ==
    /\ frame = <<>>
    /\ dpc = "done"
    /\ u16 = <<>>
    /\ s16 = <<>>
    /\ u32_be = <<>>
    /\ u32_le = <<>>
    /\ s32_be = <<>>
    /\ s32_le = <<>>

\* The exact quotient n / d of two integers (a Python float, without its
\* rounding).
Ratio(n, d) == [num |-> n, den |-> d]

\* No read is being decoded apart from the loops of the viewer.
SampleIdle ==
    /\ poll_frame = <<>>
    /\ divisor = 1
    /\ sample = Ratio(0, 1)
    /\ spc = "posted"

Cams == 1..2
Streams == 1..MaxStreams
Images == 1..MaxImage

\* CameraViewer.__init__, lines 24-35: no camera is connected.
CamIdle ==
    /\ is_running = FALSE
    /\ cap = [c \in Cams |-> FALSE]
    /\ latest_frame = [c \in Cams |-> None]
    /\ frame_lock = [c \in Cams |-> "free"]
    /\ stream_of = [s \in Streams |-> 0]
    /\ stream_pc = [s \in Streams |-> "none"]
    /\ cam_frame = [s \in Streams |-> None]
    /\ cfg = "idle"
    /\ cam = 1
    /\ resume = "idle"
    /\ shot = [c \in Cams |-> None]
    /\ saved = <<>>

\* main of modbus_probe.py is not running: probe is called by itself, with
\* a client whose port is open.
MainIdle ==
    /\ unit_parts = <<>>
    /\ units_str = <<>>
    /\ mpc = "none"
    /\ client_open = TRUE
    /\ closes = 0

Init == GuiInit /\ ProbeIdle /\ DecodeIdle /\ SampleIdle /\ CamIdle /\ MainIdle

(* ------------------------- foreground handlers ------------------------- *)

\* A release that closes the Modbus client only and forgets the serial port.
ClosedByReleaseModbusOnly == {modbus_client}

\* The handles connect_weighbridge and disconnect_weighbridge close
\* (lines 74-82, 406-414).
ClosedByRelease == {modbus_client, serial_conn}

\* connect_weighbridge, lines 74-82: close and forget the previous handles.
ConnectBegin ==
    /\ fg = "idle"
    /\ FreeSlots # {}
    /\ openHandles' = openHandles \ ClosedByRelease
    /\ modbus_client' = None
    /\ serial_conn' = None
    /\ fg' = "parse"
    /\ lastConnect' = "pending"
    /\ UNCHANGED <<weighbridge_protocol, linkParams, is_weight_connected, weight_status,
                   weight_display, queue, pc, result, data, weight_value, fails, cancelReq, target>>
    /\ UNCHANGED besideGui

\* connect_weighbridge, lines 84-92: the port and baud rate entries.
\* int() of a malformed baud rate raises (line 85) before the port is looked
\* at; an empty port shows a message box and returns (lines 87-89); otherwise
\* the status becomes Connecting and root.update() runs the posted callbacks.
ConnectParse ==
    /\ fg = "parse"
    /\ \E port \in {"empty", "given"}, baud \in {"malformed", "number"} :
        IF baud = "malformed"
        THEN /\ weight_status' = "Error"
             /\ fg' = "idle"
             /\ lastConnect' = "failed"
             /\ UNCHANGED <<weight_display, queue>>
        ELSE IF port = "empty"
        THEN /\ fg' = "idle"
             /\ lastConnect' = "failed"
             /\ UNCHANGED <<weight_status, weight_display, queue>>
        ELSE /\ weight_status' = StatusAfter(queue, "Connecting")
             /\ weight_display' = DisplayAfter(queue, weight_display)
             /\ queue' = <<>>
             /\ fg' = "open"
             /\ UNCHANGED lastConnect
    /\ UNCHANGED <<weighbridge_protocol, linkParams, modbus_client, serial_conn,
                   is_weight_connected, openHandles, pc, result, data, weight_value,
                   fails, cancelReq, target>>
    /\ UNCHANGED besideGui

\* threading.Thread(target=..., daemon=True).start() (lines 116, 140).
StartLoop ==
    LET t == Least(FreeSlots) IN
    /\ pc' = [pc EXCEPT ![t] = "check"]
    /\ result' = [result EXCEPT ![t] = NoResponse]
    /\ data' = [data EXCEPT ![t] = NoLine]
    /\ weight_value' = [weight_value EXCEPT ![t] = 0]
    /\ fails' = [fails EXCEPT ![t] = 0]
    /\ cancelReq' = [cancelReq EXCEPT ![t] = FALSE]
    /\ target' = [target EXCEPT ![t] = weighbridge_protocol]

\* A connect that reads WEIGHBRIDGE_PROTOCOL anew at every call instead of
\* using the protocol fixed at construction.
ConnectOpenRereadingProtocol ==
    /\ fg = "open"
    /\ \E outcome \in {"ok", "raise"}, protocol \in {"modbus", "ascii"} :
        /\ weighbridge_protocol' = protocol
        /\ IF outcome = "raise"
           THEN /\ weight_status' = "Error"
                /\ fg' = "idle"
                /\ lastConnect' = "failed"
                /\ UNCHANGED <<modbus_client, serial_conn, is_weight_connected,
                               openHandles, pc, result, data, weight_value, fails,
                               cancelReq, target>>
           ELSE IF protocol = "ascii"
           THEN /\ serial_conn' = Least(FreeHandles)
                /\ openHandles' = openHandles \cup {Least(FreeHandles)}
                /\ is_weight_connected' = TRUE
                /\ weight_status' = "ConnectedASCII"
                /\ pc' = [pc EXCEPT ![Least(FreeSlots)] = "check"]
                /\ target' = [target EXCEPT ![Least(FreeSlots)] = "ascii"]
                /\ fails' = [fails EXCEPT ![Least(FreeSlots)] = 0]
                /\ cancelReq' = [cancelReq EXCEPT ![Least(FreeSlots)] = FALSE]
                /\ fg' = "idle"
                /\ lastConnect' = "connected"
                /\ UNCHANGED <<modbus_client, result, data, weight_value>>
           ELSE /\ modbus_client' = Least(FreeHandles)
                /\ fg' = "handshake"
                /\ UNCHANGED <<serial_conn, is_weight_connected, weight_status,
                               openHandles, pc, result, data, weight_value, fails,
                               cancelReq, target, lastConnect>>
    /\ UNCHANGED <<linkParams, weight_display, queue>>
    /\ UNCHANGED besideGui

\* connect_weighbridge, lines 94-132: build the handle object.
\* ascii: serial.Serial(...) opens the port or raises; on success the flag is
\* set, the status is Connected (ASCII) and the loop thread starts.  A parity,
\* byte size or stop bits value outside the three maps of lines 101-103 is
\* replaced by the default of .get (lines 108-110): the call goes on as with
\* supported values.
\* modbus: ModbusSerialClient(...) is constructed (or the parameter parsing of
\* lines 119-122 raises); the port is opened later by connect().
ConnectOpen ==
    /\ fg = "open"
    /\ \E outcome \in {"ok", "raise"} :
        IF outcome = "raise"
        THEN /\ weight_status' = "Error"
             /\ fg' = "idle"
             /\ lastConnect' = "failed"
             /\ UNCHANGED <<modbus_client, serial_conn, is_weight_connected,
                            openHandles, pc, result, data, weight_value, fails, cancelReq, target>>
        ELSE IF weighbridge_protocol = "ascii"
        THEN /\ serial_conn' = Least(FreeHandles)
             /\ openHandles' = openHandles \cup {Least(FreeHandles)}
             /\ is_weight_connected' = TRUE
             /\ weight_status' = "ConnectedASCII"
             /\ StartLoop
             /\ fg' = "idle"
             /\ lastConnect' = "connected"
             /\ UNCHANGED modbus_client
        ELSE /\ modbus_client' = Least(FreeHandles)
             /\ fg' = "handshake"
             /\ UNCHANGED <<serial_conn, is_weight_connected, weight_status,
                            openHandles, pc, result, data, weight_value, fails,
                            cancelReq, target, lastConnect>>
    /\ UNCHANGED <<weighbridge_protocol, linkParams, weight_display, queue>>
    /\ UNCHANGED besideGui

\* Outcomes of self.modbus_client.connect() (line 135): the port is opened
\* (True), is not (False), or the call raises.  The parity, byte size and
\* stop bits are handed to the library as they are (lines 129-131), which
\* rejects a value it does not support when it opens the port (ValueError).
HandshakeOutcomes ==
    IF linkParams = "unsupported" THEN {"raise"} ELSE {"true", "false", "raise"}

\* connect_weighbridge, lines 135-147: self.modbus_client.connect().
ConnectHandshake ==
    /\ fg = "handshake"
    /\ \E outcome \in HandshakeOutcomes :
        IF outcome = "true"
        THEN /\ openHandles' = openHandles \cup {modbus_client}
             /\ is_weight_connected' = TRUE
             /\ weight_status' = "ConnectedModbus"
             /\ StartLoop
             /\ lastConnect' = "connected"
        ELSE /\ weight_status' = IF outcome = "false" THEN "Failed" ELSE "Error"
             /\ lastConnect' = "failed"
             /\ UNCHANGED <<openHandles, is_weight_connected, pc, result, data,
                            weight_value, fails, cancelReq, target>>
    /\ fg' = "idle"
    /\ UNCHANGED <<weighbridge_protocol, linkParams, modbus_client, serial_conn,
                   weight_display, queue>>
    /\ UNCHANGED besideGui

\* A disconnect that closes the serial port but keeps the reference to it.
DisconnectKeepingSerial ==
    /\ fg = "idle"
    /\ is_weight_connected' = FALSE
    /\ openHandles' = openHandles \ ClosedByRelease
    /\ modbus_client' = None
    /\ weight_status' = "Disconnected"
    /\ weight_display' = 0
    /\ cancelReq' = [t \in Threads |-> pc[t] # "none"]
    /\ UNCHANGED target
    /\ lastConnect' = "none"
    /\ UNCHANGED <<weighbridge_protocol, linkParams, serial_conn, fg, queue, pc,
                   result, data, weight_value, fails>>
    /\ UNCHANGED besideGui

\* disconnect_weighbridge, lines 402-417.
Disconnect ==
    /\ fg = "idle"
    /\ is_weight_connected' = FALSE
    /\ openHandles' = openHandles \ ClosedByRelease
    /\ modbus_client' = None
    /\ serial_conn' = None
    /\ weight_status' = "Disconnected"
    /\ weight_display' = 0
    /\ cancelReq' = [t \in Threads |-> pc[t] # "none"]
    /\ UNCHANGED target
    /\ lastConnect' = "none"
    /\ UNCHANGED <<weighbridge_protocol, linkParams, fg, queue, pc, result, data, weight_value, fails>>
    /\ UNCHANGED besideGui

\* The Tk event loop runs the oldest posted callback
\* (update_weight_display, lines 228-231, or one of the lambdas).
RunCallback ==
    /\ fg = "idle"
    /\ queue # <<>>
    /\ queue' = Tail(queue)
    /\ weight_display' = DisplayAfter(<<Head(queue)>>, weight_display)
    /\ weight_status' = StatusAfter(<<Head(queue)>>, weight_status)
    /\ UNCHANGED <<weighbridge_protocol, linkParams, modbus_client, serial_conn,
                   is_weight_connected, openHandles, fg, pc, result, data,
                   weight_value, fails, cancelReq, target, lastConnect>>
    /\ UNCHANGED besideGui

(* --------------------------- polling threads --------------------------- *)

\* The loop test at the top of each cycle (lines 151, 195); when it fails the
\* loop ends and posts the Disconnected status (lines 185, 226).  The line of
\* the cycle before is not read again (`data` is assigned by the next
\* readline) and is forgotten here.
LoopCheck(t) ==
    /\ pc[t] = "check"
    /\ data' = [data EXCEPT ![t] = NoLine]
    /\ IF LoopCondition
       THEN /\ pc' = [pc EXCEPT ![t] = "read"]
            /\ UNCHANGED <<queue, target>>
       ELSE /\ Len(queue) < MaxQueue
            /\ pc' = [pc EXCEPT ![t] = "none"]
            /\ target' = [target EXCEPT ![t] = "none"]
            /\ queue' = Append(queue, StatusCallback)
    /\ UNCHANGED <<weighbridge_protocol, linkParams, modbus_client, serial_conn,
                   is_weight_connected, weight_status, weight_display,
                   openHandles, fg, result, weight_value, fails, cancelReq,
                   lastConnect>>
    /\ UNCHANGED besideGui

\* Outcomes of one register read of read_weight_loop (lines 155-163):
\* an exception (also the AttributeError of None.read_... after a disconnect),
\* an error response, or a response with registers.  A client whose port is
\* not open has no registers to return.
ModbusOutcomes ==
    {Response("raise", <<>>), Response("error", <<>>)} \cup
    IF modbus_client \in openHandles
    THEN {Response("ok", f) : f \in ReadFrames}
    ELSE {}

\* read_weight_loop, lines 152-182: one cycle after the loop test.
ModbusCycle(t) ==
    /\ weighbridge_protocol = "modbus"
    /\ pc[t] = "read"
    /\ \E outcome \in ModbusOutcomes :
        IF outcome.kind = "raise"
        THEN /\ pc' = [pc EXCEPT ![t] = "errwait"]
             /\ fails' = [fails EXCEPT ![t] = Min(@ + 1, MaxFails)]
             /\ UNCHANGED <<result, weight_value, queue>>
        ELSE IF IsError(outcome)
        THEN /\ result' = [result EXCEPT ![t] = outcome]
             /\ pc' = [pc EXCEPT ![t] = "errwait"]
             /\ fails' = [fails EXCEPT ![t] = Min(@ + 1, MaxFails)]
             /\ UNCHANGED <<weight_value, queue>>
        ELSE /\ Len(queue) < MaxQueue
             /\ result' = [result EXCEPT ![t] = outcome]
             /\ weight_value' = [weight_value EXCEPT ![t] = RawOf(outcome.registers)]
             /\ queue' = Append(queue, WeightCallback(t, RawOf(outcome.registers)))
             /\ pc' = [pc EXCEPT ![t] = "wait"]
             /\ fails' = [fails EXCEPT ![t] = 0]
    /\ UNCHANGED <<weighbridge_protocol, linkParams, modbus_client, serial_conn,
                   is_weight_connected, weight_status, weight_display,
                   openHandles, fg, data, cancelReq, target, lastConnect>>
    /\ UNCHANGED besideGui

\* Outcomes of one cycle of read_weight_ascii_loop (lines 196-225): readline
\* raises (also on a closed or forgotten port), returns nothing, returns a line
\* the pattern does not match, a token float() rejects, or a sample.
AsciiOutcomes ==
    {Line("raise", 0)} \cup
    IF serial_conn \in openHandles
    THEN {Line("empty", 0), Line("nomatch", 0), Line("badfloat", 0)}
         \cup {Line("sample", v) : v \in Regs}
    ELSE {}

\* An ASCII loop that does not catch the ValueError of float() by itself: a
\* token that is no number ends the cycle in the handler of line 223, with
\* the 0.2 s wait, like a failed read.
AsciiCycleBadFloatEscalates(t) ==
    /\ weighbridge_protocol = "ascii"
    /\ pc[t] = "read"
    /\ \E outcome \in AsciiOutcomes :
        IF outcome.kind = "raise"
        THEN /\ pc' = [pc EXCEPT ![t] = "errwait"]
             /\ fails' = [fails EXCEPT ![t] = Min(@ + 1, MaxFails)]
             /\ UNCHANGED <<data, queue>>
        ELSE IF outcome.kind = "badfloat"
        THEN /\ data' = [data EXCEPT ![t] = outcome]
             /\ pc' = [pc EXCEPT ![t] = "errwait"]
             /\ fails' = [fails EXCEPT ![t] = Min(@ + 1, MaxFails)]
             /\ UNCHANGED queue
        ELSE IF outcome.kind \in {"empty", "nomatch"}
        THEN /\ data' = [data EXCEPT ![t] = outcome]
             /\ pc' = [pc EXCEPT ![t] = "check"]
             /\ UNCHANGED <<fails, queue>>
        ELSE /\ Len(queue) < MaxQueue
             /\ data' = [data EXCEPT ![t] = outcome]
             /\ queue' = Append(queue, LabelCallback(outcome.value))
             /\ pc' = [pc EXCEPT ![t] = "check"]
             /\ fails' = [fails EXCEPT ![t] = 0]
    /\ UNCHANGED <<weighbridge_protocol, linkParams, modbus_client, serial_conn,
                   is_weight_connected, weight_status, weight_display,
                   openHandles, fg, result, weight_value, cancelReq, target, lastConnect>>
    /\ UNCHANGED besideGui

\* An ASCII loop whose exception handler leaves the loop (break).
AsciiCycleBreakOnError(t) ==
    /\ weighbridge_protocol = "ascii"
    /\ pc[t] = "read"
    /\ \E outcome \in AsciiOutcomes :
        IF outcome.kind = "raise"
        THEN /\ pc' = [pc EXCEPT ![t] = "none"]
             /\ fails' = [fails EXCEPT ![t] = Min(@ + 1, MaxFails)]
             /\ UNCHANGED <<data, queue>>
        ELSE IF outcome.kind \in {"empty", "nomatch", "badfloat"}
        THEN /\ data' = [data EXCEPT ![t] = outcome]
             /\ pc' = [pc EXCEPT ![t] = "check"]
             /\ UNCHANGED <<fails, queue>>
        ELSE /\ Len(queue) < MaxQueue
             /\ data' = [data EXCEPT ![t] = outcome]
             /\ queue' = Append(queue, LabelCallback(outcome.value))
             /\ pc' = [pc EXCEPT ![t] = "check"]
             /\ fails' = [fails EXCEPT ![t] = 0]
    /\ UNCHANGED <<weighbridge_protocol, linkParams, modbus_client, serial_conn,
                   is_weight_connected, weight_status, weight_display,
                   openHandles, fg, result, weight_value, cancelReq, target, lastConnect>>
    /\ UNCHANGED besideGui

\* read_weight_ascii_loop, lines 196-225: one cycle after the loop test.
AsciiCycle(t) ==
    /\ weighbridge_protocol = "ascii"
    /\ pc[t] = "read"
    /\ \E outcome \in AsciiOutcomes :
        IF outcome.kind = "raise"
        THEN /\ pc' = [pc EXCEPT ![t] = "errwait"]
             /\ fails' = [fails EXCEPT ![t] = Min(@ + 1, MaxFails)]
             /\ UNCHANGED <<data, queue>>
        ELSE IF outcome.kind \in {"empty", "nomatch", "badfloat"}
        THEN /\ data' = [data EXCEPT ![t] = outcome]
             /\ pc' = [pc EXCEPT ![t] = "check"]
             /\ UNCHANGED <<fails, queue>>
        ELSE /\ Len(queue) < MaxQueue
             /\ data' = [data EXCEPT ![t] = outcome]
             /\ queue' = Append(queue, LabelCallback(outcome.value))
             /\ pc' = [pc EXCEPT ![t] = "check"]
             /\ fails' = [fails EXCEPT ![t] = 0]
    /\ UNCHANGED <<weighbridge_protocol, linkParams, modbus_client, serial_conn,
                   is_weight_connected, weight_status, weight_display,
                   openHandles, fg, result, weight_value, cancelReq, target, lastConnect>>
    /\ UNCHANGED besideGui

\* time.sleep(0.5) after a delivered sample (line 178).  The cycle is over:
\* `result` is not read again before the next read assigns it, and is
\* forgotten here.
CycleWait(t) ==
    /\ pc[t] = "wait"
    /\ pc' = [pc EXCEPT ![t] = "check"]
    /\ result' = [result EXCEPT ![t] = NoResponse]
    /\ UNCHANGED <<weighbridge_protocol, linkParams, modbus_client, serial_conn,
                   is_weight_connected, weight_status, weight_display,
                   openHandles, fg, queue, data, weight_value, fails,
                   cancelReq, target, lastConnect>>
    /\ UNCHANGED besideGui

\* A loop that gives up after MaxFails consecutive failures (a failure budget).
ErrorWaitWithBudget(t) ==
    /\ pc[t] = "errwait"
    /\ pc' = [pc EXCEPT ![t] = IF fails[t] >= MaxFails THEN "none" ELSE "check"]
    /\ result' = [result EXCEPT ![t] = NoResponse]
    /\ UNCHANGED <<weighbridge_protocol, linkParams, modbus_client, serial_conn,
                   is_weight_connected, weight_status, weight_display,
                   openHandles, fg, queue, data, weight_value, fails,
                   cancelReq, target, lastConnect>>
    /\ UNCHANGED besideGui

\* time.sleep(1) after a failed Modbus cycle (lines 167, 182);
\* time.sleep(0.2) after a failed ASCII read (line 224).  As in CycleWait,
\* the finished cycle's `result` is forgotten.
ErrorWait(t) ==
    /\ pc[t] = "errwait"
    /\ pc' = [pc EXCEPT ![t] = "check"]
    /\ result' = [result EXCEPT ![t] = NoResponse]
    /\ UNCHANGED <<weighbridge_protocol, linkParams, modbus_client, serial_conn,
                   is_weight_connected, weight_status, weight_display,
                   openHandles, fg, queue, data, weight_value, fails,
                   cancelReq, target, lastConnect>>
    /\ UNCHANGED besideGui

LoopStep(t) ==
    \/ LoopCheck(t)
    \/ ModbusCycle(t)
    \/ AsciiCycle(t)
    \/ CycleWait(t)
    \/ ErrorWait(t)

Foreground ==
    \/ ConnectBegin
    \/ ConnectParse
    \/ ConnectOpen
    \/ ConnectHandshake
    \/ Disconnect
    \/ RunCallback

Next ==
    \/ Foreground
    \/ \E t \in Threads : LoopStep(t)

Spec == Init /\ [][Next]_vars

\* Every started polling thread keeps being scheduled (threads of the
\* interpreter; a sleep or a blocking read returns).
FairSpec == Spec /\ \A t \in Threads : WF_vars(LoopStep(t))

(* ======================= properties of the viewer ====================== *)

\* The polling loops that are running.
Running == {t \in Threads : pc[t] # "none"}

\* C1: after any sequence of connect_weighbridge and disconnect_weighbridge
\* calls, also a connect while connected, at most one weighbridge handle is
\* open at any time: the previous one is closed before the next is opened.
C1_AtMostOneOpenHandle == Cardinality(openHandles) <= 1

\* A reconnect has happened (the loop of the earlier connection is still
\* there beside the new one) and the new connection's handle is open.
C1_Witness ==
    /\ Cardinality(Running) = 2
    /\ lastConnect = "connected"
    /\ Cardinality(openHandles) = 1

\* C2 (as claimed): at most one polling loop is running at any time, also
\* after a reconnect.
C2_AtMostOneLoop == Cardinality(Running) <= 1

\* The moves of the Modbus loop around a failed cycle: a failed cycle goes to
\* the error wait, the error wait goes back to the loop test, the loop test
\* goes to another read whenever the flag is set and the handle non-null, and
\* the loop ends nowhere but at a loop test that found the flag clear or the
\* handle null -- whatever the number of consecutive failures so far.
RetryMoves(t) ==
    /\ (pc[t] = "read" /\ pc'[t] # "read") => pc'[t] \in {"errwait", "wait"}
    /\ (pc[t] = "read" /\ fails'[t] > fails[t]) => pc'[t] = "errwait"
    /\ (pc[t] = "errwait" /\ pc'[t] # "errwait") => pc'[t] = "check"
    /\ (pc[t] = "check" /\ pc'[t] # "check" /\ LoopCondition) => pc'[t] = "read"
    /\ (pc[t] # "none" /\ pc'[t] = "none") => (pc[t] = "check" /\ ~LoopCondition)

\* C3: while the flag is set and the Modbus handle is non-null the Modbus
\* loop is not ended by read failures: every step of the loop is one of
\* RetryMoves (no failure count, no terminal failure state), and a loop in
\* its error wait goes on to issue another read unless the flag is cleared
\* or the handle nulled in the meantime.
C3_RetriesForever ==
    /\ [][\A t \in Threads : weighbridge_protocol = "modbus" => RetryMoves(t)]_vars
    /\ \A t \in Threads :
        (weighbridge_protocol = "modbus" /\ pc[t] = "errwait")
            ~> (pc[t] = "read" \/ ~LoopCondition)

\* After MaxFails consecutive failed cycles, each followed by its error wait,
\* the Modbus loop issues another read.
C3_Witness ==
    \E t \in Threads :
        /\ weighbridge_protocol = "modbus"
        /\ fails[t] = MaxFails
        /\ pc[t] = "read"
        /\ LoopCondition

\* C4 (as claimed): a Modbus cycle delivers a sample (posts the weight
\* callback and goes to the 0.5 s wait) only if its read returned a response
\* that is no error and whose register payload is not empty.
C4_SampleOnlyFromGoodRead ==
    [][\A t \in Threads :
        (weighbridge_protocol = "modbus" /\ pc[t] = "read" /\ pc'[t] = "wait")
            => (result'[t].kind = "ok" /\ result'[t].registers # <<>>)
      ]_vars

\* C5 (as claimed): after a connect attempt has failed no polling loop runs
\* against the weighbridge: while the latest connect attempt is a failed one,
\* no loop passes its loop test into another read.
C5_NoLoopAfterFailedConnect ==
    [][(lastConnect = "failed" /\ lastConnect' = "failed") =>
        \A t \in Threads : ~(pc[t] = "check" /\ pc'[t] = "read")
      ]_vars

C7_DeliveredInReadOrder ==
    [][(queue # <<>> /\ queue' = Tail(queue) /\ Head(queue).k # "status")
            => weight_display' = Head(queue).v
      ]_vars


(* ----------------------------- probe sweep ----------------------------- *)

\* The ascending list of the elements of a set of integers:
\* sorted(set(units)) of parse_units.
RECURSIVE SortedSeq(_)
SortedSeq(S) == IF S = {} THEN <<>> ELSE <<Least(S)>> \o SortedSeq(S \ {Least(S)})

\* All sequences over S of length at most n.
RECURSIVE SeqsUpTo(_, _)
SeqsUpTo(S, n) ==
    IF n = 0 THEN {<<>>}
    ELSE SeqsUpTo(S, n - 1) \cup
         {Append(q, x) : q \in {r \in SeqsUpTo(S, n - 1) : Len(r) = n - 1}, x \in S}

\* len(range(address_start, address_end + 1))
RangeLen(lo, hi) == IF hi >= lo THEN hi - lo + 1 ELSE 0

\* Frames a probe read returns, as far as probe inspects them (truthiness).
ProbeFrames == {<<>>, <<1>>}

\* Outcomes of read_holding_registers / read_input_registers in probe:
\* a response with registers, an error response, a ModbusException, or any
\* other exception (a serial timeout).
ProbeOutcomes ==
    {Response("ok", f) : f \in ProbeFrames} \cup
    {Response("error", <<>>), Response("modbusexc", <<>>), Response("raise", <<>>)}

\* An acceptance test that forgets to look at the payload.
ProbeAcceptsAnyResponse(r) == r.kind = "ok"

\* Line 75: hasattr(resp, 'isError') and not resp.isError()
\*          and hasattr(resp, 'registers') and resp.registers
ProbeAccepts(r) == r.kind = "ok" /\ r.registers # <<>>

\* The tuple appended at line 76.
ProbeResult(unit, addr, count, registers) ==
    [unit |-> unit, address |-> addr, count |-> count, registers |-> registers]

\* main, lines 125-127: the parsed arguments handed to probe.  units is what
\* parse_units returns (ascending, no duplicates); counts is what parse_counts
\* returns (the given order, repetitions kept).
ProbeInit ==
    /\ units \in {SortedSeq(S) : S \in SUBSET (1..MaxUnit)}
    /\ address_start \in 0..MaxAddr
    /\ address_end \in (address_start - 1)..MaxAddr
    /\ counts \in SeqsUpTo(1..MaxCount, MaxCounts)
    /\ Len(units) * RangeLen(address_start, address_end) * Len(counts) <= MaxSweep
    /\ ppc = "start"
    /\ ui = 0
    /\ address = 0
    /\ ci = 0
    /\ resp = NoResponse
    /\ results = <<>>
    /\ attempts = <<>>
    /\ lastRead = NoResponse
    /\ sleeps = 0

\* No viewer runs beside the probe.
GuiIdle ==
    /\ weighbridge_protocol = "modbus"
    /\ linkParams = "supported"
    /\ modbus_client = None
    /\ serial_conn = None
    /\ is_weight_connected = FALSE
    /\ weight_status = "Disconnected"
    /\ weight_display = 0
    /\ openHandles = {}
    /\ fg = "closed"
    /\ queue = <<>>
    /\ pc = [t \in Threads |-> "none"]
    /\ result = [t \in Threads |-> NoResponse]
    /\ data = [t \in Threads |-> NoLine]
    /\ weight_value = [t \in Threads |-> 0]
    /\ fails = [t \in Threads |-> 0]
    /\ cancelReq = [t \in Threads |-> FALSE]
    /\ target = [t \in Threads |-> "none"]
    /\ lastConnect = "none"

\* The nested for statements of lines 67-69 reach a loop body only when the
\* three iterables are non-empty.
SweepEmpty ==
    \/ units = <<>>
    \/ RangeLen(address_start, address_end) = 0
    \/ counts = <<>>

\* probe, lines 66-69: results = [] and the first iteration of the loops.
ProbeStart ==
    /\ ppc = "start"
    /\ IF SweepEmpty
       THEN /\ ppc' = "done"
            /\ UNCHANGED <<ui, address, ci>>
       ELSE /\ ppc' = "read"
            /\ ui' = 1
            /\ address' = address_start
            /\ ci' = 1
    /\ UNCHANGED <<units, address_start, address_end, counts, resp, results,
                   attempts, lastRead, sleeps>>
    /\ UNCHANGED besideProbe

\* A sweep whose handler of other exceptions gives up (return instead of pass).
ProbeReadAborting ==
    /\ ppc = "read"
    /\ attempts' = Append(attempts, <<units[ui], address, counts[ci]>>)
    /\ \E outcome \in ProbeOutcomes :
        /\ lastRead' = outcome
        /\ ppc' = IF outcome.kind = "raise" THEN "done" ELSE "sleep"
        /\ IF outcome.kind \in {"modbusexc", "raise"}
           THEN UNCHANGED <<resp, results>>
           ELSE
             /\ resp' = outcome
             /\ results' = IF ProbeAccepts(outcome)
                           THEN Append(results, ProbeResult(units[ui], address,
                                                           counts[ci], outcome.registers))
                           ELSE results
    /\ UNCHANGED <<units, address_start, address_end, counts, ui, address, ci,
                   sleeps>>
    /\ UNCHANGED besideProbe

\* A sweep whose time.sleep(delay) stands inside the try block: a read that
\* raised goes on to the next triple without the wait.
ProbeReadSleepInTry ==
    /\ ppc = "read"
    /\ attempts' = Append(attempts, <<units[ui], address, counts[ci]>>)
    /\ \E outcome \in ProbeOutcomes :
        /\ lastRead' = outcome
        /\ IF outcome.kind \in {"modbusexc", "raise"}
           THEN
             /\ UNCHANGED <<resp, results>>
             /\ IF ci < Len(counts)
                THEN ci' = ci + 1 /\ ppc' = "read" /\ UNCHANGED <<ui, address>>
                ELSE IF address < address_end
                THEN ci' = 1 /\ address' = address + 1 /\ ppc' = "read" /\ UNCHANGED ui
                ELSE IF ui < Len(units)
                THEN ci' = 1 /\ address' = address_start /\ ui' = ui + 1 /\ ppc' = "read"
                ELSE ppc' = "done" /\ UNCHANGED <<ui, address, ci>>
           ELSE
             /\ resp' = outcome
             /\ results' = IF ProbeAccepts(outcome)
                           THEN Append(results, ProbeResult(units[ui], address,
                                                           counts[ci], outcome.registers))
                           ELSE results
             /\ ppc' = "sleep"
             /\ UNCHANGED <<ui, address, ci>>
    /\ UNCHANGED <<units, address_start, address_end, counts, sleeps>>
    /\ UNCHANGED besideProbe

\* probe, lines 70-87: one read and what is made of its response.
ProbeRead ==
    /\ ppc = "read"
    /\ attempts' = Append(attempts, <<units[ui], address, counts[ci]>>)
    /\ \E outcome \in ProbeOutcomes :
        /\ lastRead' = outcome
        /\ IF outcome.kind \in {"modbusexc", "raise"}
           THEN UNCHANGED <<resp, results>>
           ELSE
             /\ resp' = outcome
             /\ results' = IF ProbeAccepts(outcome)
                           THEN Append(results, ProbeResult(units[ui], address,
                                                           counts[ci], outcome.registers))
                           ELSE results
    /\ ppc' = "sleep"
    /\ UNCHANGED <<units, address_start, address_end, counts, ui, address, ci,
                   sleeps>>
    /\ UNCHANGED besideProbe

\* A sweep whose loops are nested the other way round: addresses innermost.
ProbeSleepAddressInner ==
    /\ ppc = "sleep"
    /\ IF address < address_end
       THEN /\ address' = address + 1
            /\ ppc' = "read"
            /\ UNCHANGED <<ui, ci>>
       ELSE IF ci < Len(counts)
       THEN /\ address' = address_start
            /\ ci' = ci + 1
            /\ ppc' = "read"
            /\ UNCHANGED ui
       ELSE IF ui < Len(units)
       THEN /\ ci' = 1
            /\ address' = address_start
            /\ ui' = ui + 1
            /\ ppc' = "read"
       ELSE /\ ppc' = "done"
            /\ UNCHANGED <<ui, address, ci>>
    /\ sleeps' = sleeps + 1
    /\ resp' = NoResponse
    /\ UNCHANGED <<units, address_start, address_end, counts, results,
                   attempts, lastRead>>
    /\ UNCHANGED besideProbe

\* probe, line 88 and the loop headers of lines 67-69: time.sleep(delay),
\* then the next count, else the next address, else the next unit, else
\* return results (line 89).  The iteration is over: `resp` is not read
\* again before the next read assigns it, and is forgotten here.
ProbeSleep ==
    /\ ppc = "sleep"
    /\ IF ci < Len(counts)
       THEN /\ ci' = ci + 1
            /\ ppc' = "read"
            /\ UNCHANGED <<ui, address>>
       ELSE IF address < address_end
       THEN /\ ci' = 1
            /\ address' = address + 1
            /\ ppc' = "read"
            /\ UNCHANGED ui
       ELSE IF ui < Len(units)
       THEN /\ ci' = 1
            /\ address' = address_start
            /\ ui' = ui + 1
            /\ ppc' = "read"
       ELSE /\ ppc' = "done"
            /\ UNCHANGED <<ui, address, ci>>
    /\ sleeps' = sleeps + 1
    /\ resp' = NoResponse
    /\ UNCHANGED <<units, address_start, address_end, counts, results,
                   attempts, lastRead>>
    /\ UNCHANGED besideProbe

ProbeNext ==
    \/ ProbeStart
    \/ ProbeRead
    \/ ProbeSleep

SweepInit == ProbeInit /\ GuiIdle /\ DecodeIdle /\ SampleIdle /\ CamIdle /\ MainIdle

ProbeSpec == SweepInit /\ [][ProbeNext]_vars

\* The probe is one sequential program: it keeps running until it returns.
FairProbeSpec == ProbeSpec /\ WF_vars(ProbeNext)


(* ======================== properties of the probe ====================== *)

\* C8: a sweep is never aborted or truncated by failed reads: whatever the
\* outcome of each read, when probe returns it has issued
\* |units| x (hi - lo + 1) x |counts| reads; and probe does return.
C8_SweepNeverTruncated ==
    /\ [](ppc = "done" =>
            Len(attempts) = Len(units) * (address_end - address_start + 1) * Len(counts))
    /\ <>(ppc = "done")

\* The sweep of units {1,2}, addresses [0,1], counts [1] whose first read,
\* (unit 1, address 0), failed: probe has returned after 4 attempts and
\* reports the other three.
C8_Witness ==
    /\ ppc = "done"
    /\ units = <<1, 2>> /\ address_start = 0 /\ address_end = 1 /\ counts = <<1>>
    /\ attempts = << <<1, 0, 1>>, <<1, 1, 1>>, <<2, 0, 1>>, <<2, 1, 1>> >>
    /\ Len(results) = 3
    /\ \A i \in 1..3 : <<results[i].unit, results[i].address>> # <<1, 0>>

\* The number of loop bodies the nested loops of a sweep run.
SweepTotal == Len(units) * RangeLen(address_start, address_end) * Len(counts)

\* The k-th triple of the nested order: units outermost, then the addresses
\* from lo upwards, the counts list innermost, in its given order.
TripleAt(k) ==
    LET a == RangeLen(address_start, address_end)
        c == Len(counts)
    IN  << units[((k - 1) \div (a * c)) + 1],
           address_start + (((k - 1) \div c) % a),
           counts[((k - 1) % c) + 1] >>

SweepOrder == [k \in 1..SweepTotal |-> TripleAt(k)]

NoRepeat(q) == \A i, j \in 1..Len(q) : i # j => q[i] # q[j]

Ascending(q) == \A i, j \in 1..Len(q) : i < j => q[i] < q[j]

\* C9 (as claimed): the reads of a sweep are the triples in the fixed nested
\* order, one read each, and no triple is read twice or skipped.
C9_OneReadPerTriple ==
    ppc = "done" => (attempts = SweepOrder /\ NoRepeat(attempts))

\* C9 (amended): the sweep issues exactly one read per unit, address and
\* position of the counts list, in the fixed nested order (units ascending
\* outermost, addresses ascending from lo to hi, the counts list innermost in
\* its given order); no position is read twice or skipped, and no triple is
\* read twice when the counts list repeats no value.
C9_FixedNestedOrder ==
    /\ Ascending(units)
    /\ Len(attempts) <= SweepTotal
    /\ \A k \in 1..Len(attempts) : attempts[k] = TripleAt(k)
    /\ ppc = "done" => attempts = SweepOrder
    /\ NoRepeat(counts) => NoRepeat(attempts)

\* A finished sweep of two units, two addresses and the counts list [2, 1].
C9_Witness ==
    /\ ppc = "done"
    /\ Len(units) = 2
    /\ RangeLen(address_start, address_end) = 2
    /\ counts = <<2, 1>>
    /\ Len(attempts) = 8

\* C10: the returned sequence holds one ProbeResult for exactly the attempted
\* triples whose read succeeded with a non-empty frame, in attempt order:
\* every read appends its triple and frame when it returned a response that
\* is no error and whose frame is not empty, and leaves the sequence alone
\* otherwise; nothing else changes it; no entry has an empty frame.
C10_ResultsAreTheGoodReads ==
    /\ [][IF attempts' # attempts
          THEN results' =
                 IF lastRead'.kind = "ok" /\ lastRead'.registers # <<>>
                 THEN Append(results,
                        [unit |-> attempts'[Len(attempts')][1],
                         address |-> attempts'[Len(attempts')][2],
                         count |-> attempts'[Len(attempts')][3],
                         registers |-> lastRead'.registers])
                 ELSE results
          ELSE results' = results]_vars
    /\ [](\A i \in 1..Len(results) : results[i].registers # <<>>)

\* A read has just returned an empty frame and added nothing, after an
\* earlier read of the sweep was recorded.
C10_Witness ==
    /\ ppc = "sleep"
    /\ lastRead = Response("ok", <<>>)
    /\ Len(results) >= 1
    /\ Len(results) < Len(attempts) - 1

\* C11: in a sweep every read attempt, whether it succeeded, returned an
\* error or raised, is followed by exactly one wait (time.sleep(delay)) before
\* the next read is issued, and no two reads occur without a wait between
\* them: whenever a read is about to be issued, and when probe has returned,
\* as many waits as reads have been made; while a read's wait is pending, one
\* less; a read step is always followed by the wait, and a wait never by a
\* second wait.
C11_OneWaitAfterEveryRead ==
    /\ [](sleeps = Len(attempts) - (IF ppc = "sleep" THEN 1 ELSE 0))
    /\ [][attempts' # attempts => (ppc' = "sleep" /\ sleeps' = sleeps)]_vars
    /\ [][sleeps' # sleeps =>
            (ppc = "sleep" /\ sleeps' = sleeps + 1 /\ attempts' = attempts)]_vars

\* The third read of a sweep is about to be issued; the second one raised and
\* was followed by its wait like the first.
C11_Witness ==
    /\ ppc = "read"
    /\ Len(attempts) = 2
    /\ lastRead.kind = "raise"
    /\ sleeps = 2

(* --------------------------- register decoding ------------------------- *)

\* Longest frame handed to pretty_candidates.
MaxFrameLen == 4

\* The literals of the decoders: 0xFFFF, 0x8000, 0x10000.
Mask16 == 65535
SignBit16 == 32768
Wrap16 == 65536

\* Python's a & b on integers, for a mask b >= 0 and any a (a negative a is
\* an unbounded two's complement: % and \div round towards minus infinity).
RECURSIVE BitAnd(_, _)
BitAnd(a, b) ==
    IF b = 0 THEN 0
    ELSE (a % 2) * (b % 2) + 2 * BitAnd(a \div 2, b \div 2)

\* A 32-bit quantity is kept as its two 16-bit halves (the checker's integers
\* are 32 bits wide and signed, 2^32 - 1 does not fit): Word(h, l) stands for
\* h * 2^16 + l with 0 <= l < 2^16.  (h << 16) | l of two 16-bit values is
\* Word(h, l); subtracting 0x100000000 subtracts 0x10000 from the high half.
Word(h, l) == [hi |-> h, lo |-> l]

\* The integer a word stands for; it fits when -2^15 <= hi < 2^15.
WordValue(w) == w.hi * Wrap16 + w.lo

\* ((hi & 0xFFFF) << 16) | (lo & 0xFFFF)   (lines 29, 37)
Combine(hi, lo) == Word(BitAnd(hi, Mask16), BitAnd(lo, Mask16))

\* u & 0x80000000 (line 38): bit 31 of the word, bit 15 of its high half.
SignBit32(u) == BitAnd(u.hi, SignBit16) # 0

\* Register values the decoders are run on: both ends and the sign boundary
\* of the 16-bit range, and integers outside it.
RegisterSamples == {0, 1, 2, 32767, 32768, 65535, 65537, -1}

\* decode_u16_list, lines 11-12.
decode_u16_list(registers) ==
    [i \in 1..Len(registers) |-> BitAnd(registers[i], Mask16)]

\* A signed decode that forgets the sign (the value is left as masked).
decode_s16_list_unsigned(registers) ==
    [i \in 1..Len(registers) |-> BitAnd(registers[i], Mask16)]

\* decode_s16_list, lines 15-22.
decode_s16_list(registers) ==
    [i \in 1..Len(registers) |->
        LET v == BitAnd(registers[i], Mask16)
        IN  IF BitAnd(v, SignBit16) # 0 THEN v - Wrap16 ELSE v]

\* A pairing that takes the byte order the wrong way round.
RECURSIVE U32LoopSwapped(_, _, _, _)
U32LoopSwapped(registers, big_endian, i, values) ==
    IF i >= Len(registers) - 1 THEN values
    ELSE LET hi == IF big_endian THEN registers[i + 2] ELSE registers[i + 1]
             lo == IF big_endian THEN registers[i + 1] ELSE registers[i + 2]
         IN  U32LoopSwapped(registers, big_endian, i + 2,
                            Append(values, Combine(hi, lo)))

\* A pairing that runs to the end of the frame and takes a missing second
\* register of the last pair as 0.
RECURSIVE U32LoopPadded(_, _, _, _)
U32LoopPadded(registers, big_endian, i, values) ==
    IF i >= Len(registers) THEN values
    ELSE LET first == registers[i + 1]
             second == IF i + 2 <= Len(registers) THEN registers[i + 2] ELSE 0
             hi == IF big_endian THEN first ELSE second
             lo == IF big_endian THEN second ELSE first
         IN  U32LoopPadded(registers, big_endian, i + 2,
                           Append(values, Combine(hi, lo)))

\* decode_u32_pairs, lines 26-30: the loop `for i in range(0, len(registers)
\* - 1, 2)` from index i on (i counts from 0 as in the source; registers[i]
\* of the source is registers[i + 1] here).
RECURSIVE U32Loop(_, _, _, _)
U32Loop(registers, big_endian, i, values) ==
    IF i >= Len(registers) - 1 THEN values
    ELSE LET hi == IF big_endian THEN registers[i + 1] ELSE registers[i + 2]
             lo == IF big_endian THEN registers[i + 2] ELSE registers[i + 1]
         IN  U32Loop(registers, big_endian, i + 2, Append(values, Combine(hi, lo)))

decode_u32_pairs(registers, big_endian) == U32Loop(registers, big_endian, 0, <<>>)

\* A signed pairing that forgets the sign (no subtraction of 0x100000000).
RECURSIVE S32LoopUnsigned(_, _, _, _)
S32LoopUnsigned(registers, big_endian, i, values) ==
    IF i >= Len(registers) - 1 THEN values
    ELSE LET hi == IF big_endian THEN registers[i + 1] ELSE registers[i + 2]
             lo == IF big_endian THEN registers[i + 2] ELSE registers[i + 1]
         IN  S32LoopUnsigned(registers, big_endian, i + 2,
                             Append(values, Combine(hi, lo)))

\* decode_s32_pairs, lines 34-41.
RECURSIVE S32Loop(_, _, _, _)
S32Loop(registers, big_endian, i, values) ==
    IF i >= Len(registers) - 1 THEN values
    ELSE LET hi == IF big_endian THEN registers[i + 1] ELSE registers[i + 2]
             lo == IF big_endian THEN registers[i + 2] ELSE registers[i + 1]
             u == Combine(hi, lo)
             v == IF SignBit32(u) THEN Word(u.hi - Wrap16, u.lo) ELSE u
         IN  S32Loop(registers, big_endian, i + 2, Append(values, v))

decode_s32_pairs(registers, big_endian) == S32Loop(registers, big_endian, 0, <<>>)

\* A call of pretty_candidates with some frame.
DecodeInit ==
    /\ frame \in SeqsUpTo(RegisterSamples, MaxFrameLen)
    /\ dpc = "call"
    /\ u16 = <<>>
    /\ s16 = <<>>
    /\ u32_be = <<>>
    /\ u32_le = <<>>
    /\ s32_be = <<>>
    /\ s32_le = <<>>

\* pretty_candidates, lines 45-50: the six decodes of the frame.
PrettyCandidates ==
    /\ dpc = "call"
    /\ u16' = decode_u16_list(frame)
    /\ s16' = decode_s16_list(frame)
    /\ u32_be' = decode_u32_pairs(frame, TRUE)
    /\ u32_le' = decode_u32_pairs(frame, FALSE)
    /\ s32_be' = decode_s32_pairs(frame, TRUE)
    /\ s32_le' = decode_s32_pairs(frame, FALSE)
    /\ dpc' = "done"
    /\ UNCHANGED frame
    /\ UNCHANGED besideDecode

DecodeStart == DecodeInit /\ GuiIdle /\ ProbeIdle /\ SampleIdle /\ CamIdle /\ MainIdle

DecodeSpec == DecodeStart /\ [][PrettyCandidates]_vars

(* ===================== properties of the decoders ====================== *)

\* C12: for every frame the 16-bit decodes have the frame's length,
\* u16[i] = frame[i] mod 65536, and s16[i] is the two's-complement reading of
\* u16[i] (u16[i] below 32768, u16[i] - 65536 otherwise), so that s16[i] lies
\* in [-32768, 32767]; the frame [0, 1, 0x8000, 0xFFFF] decodes to
\* u16 = [0, 1, 32768, 65535] and s16 = [0, 1, -32768, -1].
C12_SixteenBitDecodes ==
    dpc = "done" =>
        /\ Len(u16) = Len(frame)
        /\ Len(s16) = Len(frame)
        /\ \A i \in 1..Len(frame) :
            /\ u16[i] = frame[i] % 65536
            /\ s16[i] = IF u16[i] < 32768 THEN u16[i] ELSE u16[i] - 65536
            /\ s16[i] >= -32768
            /\ s16[i] <= 32767
        /\ frame = <<0, 1, 32768, 65535>> =>
            (u16 = <<0, 1, 32768, 65535>> /\ s16 = <<0, 1, -32768, -1>>)

\* The frame [0, 1, 0x8000, 0xFFFF] has been decoded.
C12_Witness ==
    /\ dpc = "done"
    /\ frame = <<0, 1, 32768, 65535>>
    /\ s16[3] = -32768
    /\ u16[4] = 65535

\* The registers of a frame are 16-bit unsigned values.
SixteenBit(q) == \A i \in 1..Len(q) : q[i] >= 0 /\ q[i] <= 65535

\* C13: for every frame and every pair index k (from 0) with 2k+1 < length,
\* u32_BE[k] = (frame[2k] << 16) | frame[2k+1] and u32_LE[k] =
\* (frame[2k+1] << 16) | frame[2k], each an unsigned value in [0, 2^32): both
\* halves of the word lie in [0, 2^16), they are the two registers of the
\* pair reduced mod 2^16, hence the registers themselves in a frame of
\* 16-bit values; the frame [1, 2] gives BE 65538 and LE 131073.
C13_UnsignedPairs ==
    dpc = "done" =>
        /\ \A w \in {u32_be[k] : k \in 1..Len(u32_be)} \cup {u32_le[k] : k \in 1..Len(u32_le)} :
            /\ w.hi >= 0 /\ w.hi <= 65535
            /\ w.lo >= 0 /\ w.lo <= 65535
        /\ \A k \in 0..Len(frame) :
            2 * k + 1 < Len(frame) =>
                /\ k + 1 <= Len(u32_be)
                /\ k + 1 <= Len(u32_le)
                /\ u32_be[k + 1] = Word(frame[2 * k + 1] % 65536, frame[2 * k + 2] % 65536)
                /\ u32_le[k + 1] = Word(frame[2 * k + 2] % 65536, frame[2 * k + 1] % 65536)
                /\ SixteenBit(frame) =>
                    /\ u32_be[k + 1] = Word(frame[2 * k + 1], frame[2 * k + 2])
                    /\ u32_le[k + 1] = Word(frame[2 * k + 2], frame[2 * k + 1])
        /\ frame = <<1, 2>> =>
            (WordValue(u32_be[1]) = 65538 /\ WordValue(u32_le[1]) = 131073)

\* A frame of two pairs has been decoded; its second pair is (0xFFFF, 0x8000).
C13_Witness ==
    /\ dpc = "done"
    /\ frame = <<1, 2, 65535, 32768>>
    /\ u32_be = <<Word(1, 2), Word(65535, 32768)>>
    /\ u32_le = <<Word(2, 1), Word(32768, 65535)>>

\* C14: for every frame and either byte order the signed 32-bit decode is the
\* two's-complement reinterpretation of the unsigned decode of the same pair:
\* s32[k] = u32[k] when u32[k] < 2^31 (its high half below 2^15) and
\* u32[k] - 2^32 otherwise, so that s32[k] lies in [-2^31, 2^31), and the two
\* lists have equal length; (0xFFFF, 0xFFFF) reads -1 and (0x8000, 0) reads
\* -2^31.
C14_SignedPairsReinterpretUnsigned ==
    dpc = "done" =>
        /\ \A p \in {<<u32_be, s32_be>>, <<u32_le, s32_le>>} :
            /\ Len(p[2]) = Len(p[1])
            /\ \A k \in 1..Len(p[1]) :
                /\ p[2][k] = IF p[1][k].hi < 32768
                             THEN p[1][k]
                             ELSE Word(p[1][k].hi - 65536, p[1][k].lo)
                /\ p[2][k].hi >= -32768 /\ p[2][k].hi <= 32767
                /\ p[2][k].lo >= 0 /\ p[2][k].lo <= 65535
                /\ p[1][k].hi < 32768 => WordValue(p[2][k]) >= 0
                /\ p[1][k].hi >= 32768 => WordValue(p[2][k]) < 0
        /\ frame = <<65535, 65535>> => WordValue(s32_be[1]) = -1
        /\ frame = <<32768, 0>> =>
            (WordValue(s32_be[1]) = -2147483647 - 1 /\ WordValue(s32_le[1]) = 32768)

\* The pair (0x8000, 0) has been decoded: negative big-endian, positive
\* little-endian.
C14_Witness ==
    /\ dpc = "done"
    /\ frame = <<32768, 0>>
    /\ s32_be = <<Word(-32768, 0)>>
    /\ s32_le = <<Word(0, 32768)>>
    /\ u32_be = <<Word(32768, 0)>>

\* C15: for a frame of any length n (0, 1 and every odd n included) each of
\* the four 32-bit decodes returns exactly floor(n/2) values, whatever the
\* frame (no call fails: every call made has returned its lists); the final
\* register of an odd-length frame is left out and is no half of a pair: the
\* decodes are those of the frame without it.
C15_OddRegisterDropped ==
    dpc = "done" =>
        /\ \A q \in {u32_be, u32_le, s32_be, s32_le} : Len(q) = Len(frame) \div 2
        /\ Len(frame) % 2 = 1 =>
            LET even == SubSeq(frame, 1, Len(frame) - 1)
            IN  /\ u32_be = decode_u32_pairs(even, TRUE)
                /\ u32_le = decode_u32_pairs(even, FALSE)
                /\ s32_be = decode_s32_pairs(even, TRUE)
                /\ s32_le = decode_s32_pairs(even, FALSE)

\* A frame of length 3 has been decoded to one value per decode.
C15_Witness ==
    /\ dpc = "done"
    /\ Len(frame) = 3
    /\ Len(u32_be) = 1 /\ Len(u32_le) = 1 /\ Len(s32_be) = 1 /\ Len(s32_le) = 1

(* ------------------- the sample of one Modbus read --------------------- *)

\* Values of WEIGHBRIDGE_SCALE_DIVISOR that float() accepts.
DivisorSamples == {0, 1, 2, 10}

\* A conversion that divides by the divisor as configured, 0 included.
WeightOfUnguarded(registers, d) == Ratio(RawOf(registers), d)

\* Lines 171-173: raw = result.registers[0] if len(result.registers) > 0
\* else 0; weight_value = float(raw) / (divisor if divisor != 0 else 1).
\* (The loops of Spec run with the default divisor "1", where the quotient is
\* raw itself.)
WeightOf(registers, d) == Ratio(RawOf(registers), IF d # 0 THEN d ELSE 1)

\* A read of read_weight_loop has returned a response that is no error, with
\* some frame, under some configured divisor.
SampleInit ==
    /\ poll_frame \in SeqsUpTo(RegisterSamples, MaxFrameLen)
    /\ divisor \in DivisorSamples
    /\ sample = Ratio(0, 1)
    /\ spc = "read"

\* read_weight_loop, lines 171-176 and 180-182: the conversion of the frame
\* and the posting of the sample; float() of a malformed divisor text raises
\* (line 172) and the cycle ends in the handler of line 180 with nothing
\* posted.
DecodeSample ==
    /\ spc = "read"
    /\ \E parsed \in BOOLEAN :
        IF parsed
        THEN /\ sample' = WeightOf(poll_frame, divisor)
             /\ spc' = "posted"
        ELSE /\ spc' = "failed"
             /\ UNCHANGED sample
    /\ UNCHANGED <<poll_frame, divisor>>
    /\ UNCHANGED besideSample

SampleStart == SampleInit /\ GuiIdle /\ ProbeIdle /\ DecodeIdle /\ CamIdle /\ MainIdle

SampleSpec == SampleStart /\ [][DecodeSample]_vars

\* C16: on a successful Modbus read the emitted sample's value equals
\* register index 0 of the frame divided by the configured scale divisor,
\* with divisor 0 treated as 1 (value * divisor' = register 0, divisor' # 0);
\* it does not depend on any register beyond index 0, whatever count was
\* requested: it is the value of the one-register frame holding register 0.
C16_SampleIsRegisterZeroOverDivisor ==
    (spc = "posted" /\ Len(poll_frame) > 0) =>
        /\ sample.den # 0
        /\ sample.den = (IF divisor = 0 THEN 1 ELSE divisor)
        /\ sample.num * (IF divisor = 0 THEN 1 ELSE divisor) = poll_frame[1] * sample.den
        /\ sample = WeightOf(<<poll_frame[1]>>, divisor)

\* A frame of two registers has been converted under the divisor 0.
C16_Witness ==
    /\ spc = "posted"
    /\ divisor = 0
    /\ poll_frame = <<2, 65535>>
    /\ sample = Ratio(2, 1)

(* ----------------------- the --units specification --------------------- *)

\* main of modbus_probe.py, line 125: units = parse_units(args.units).  The
\* text is a sequence of characters; parse_units is modelled on the
\* characters, with str.split, str.strip, the `in` test and int() as Python
\* defines them on the alphabet of digits, ",", "-" and " ".

\* Parts of one specification, the ids its literals take and the ends of its
\* ranges.
MaxParts == 3
UnitSamples == {1, 3, 5, 9, 10}
RangeEnds == {3, 5, 10}

Digits == <<"0", "1", "2", "3", "4", "5", "6", "7", "8", "9">>

IsDigit(ch) == \E d \in 1..10 : Digits[d] = ch
DigitValue(ch) == (CHOOSE d \in 1..10 : Digits[d] = ch) - 1

\* str(n) for n >= 0.
RECURSIVE Decimal(_)
Decimal(n) ==
    IF n < 10 THEN <<Digits[n + 1]>>
    ELSE Decimal(n \div 10) \o <<Digits[(n % 10) + 1]>>

\* One part of a specification: a literal id, or a range lo-hi.
Literal(n) == [kind |-> "literal", lo |-> n, hi |-> n]
RangePart(lo, hi) == [kind |-> "range", lo |-> lo, hi |-> hi]
UnitParts ==
    {Literal(n) : n \in UnitSamples}
    \cup {RangePart(lo, hi) : lo \in RangeEnds, hi \in RangeEnds}

\* The text of a part, as the help of --units writes it (line 100).
PartText(p) ==
    IF p.kind = "literal" THEN Decimal(p.lo)
    ELSE Decimal(p.lo) \o <<"-">> \o Decimal(p.hi)

\* The parts joined by sep ("," or ", ").
RECURSIVE SpecText(_, _)
SpecText(parts, sep) ==
    IF Len(parts) = 1 THEN PartText(parts[1])
    ELSE PartText(parts[1]) \o sep \o SpecText(Tail(parts), sep)

\* Texts that are no specification: the empty text, an empty part, a range
\* without an end, a negative literal, a range to a negative end.
MalformedTexts ==
    { <<>>,
      <<"1", ",", ",", "3">>,
      <<"1", "-">>,
      <<"-", "1">>,
      <<"3", "-", "-", "1">>,
      <<"1", " ", "3">> }

\* The first position of character ch in s, 0 when s has none.
IndexOf(s, ch) ==
    IF \E i \in 1..Len(s) : s[i] = ch
    THEN Least({i \in 1..Len(s) : s[i] = ch})
    ELSE 0

\* s.split(sep) for a separator of one character.
RECURSIVE Split(_, _)
Split(s, sep) ==
    IF IndexOf(s, sep) = 0 THEN <<s>>
    ELSE <<SubSeq(s, 1, IndexOf(s, sep) - 1)>>
         \o Split(SubSeq(s, IndexOf(s, sep) + 1, Len(s)), sep)

\* s.strip()
RECURSIVE Strip(_)
Strip(s) ==
    IF s = <<>> THEN s
    ELSE IF s[1] = " " THEN Strip(Tail(s))
    ELSE IF s[Len(s)] = " " THEN Strip(SubSeq(s, 1, Len(s) - 1))
    ELSE s

\* The value of a string of digits.
RECURSIVE DecimalValue(_)
DecimalValue(ds) ==
    IF ds = <<>> THEN 0
    ELSE DecimalValue(SubSeq(ds, 1, Len(ds) - 1)) * 10 + DigitValue(ds[Len(ds)])

AllDigits(s) == s # <<>> /\ \A i \in 1..Len(s) : IsDigit(s[i])

\* int(token): surrounding blanks are ignored, a sign may lead, the rest is
\* digits; anything else raises ValueError (ok = FALSE).
IntOf(token) ==
    LET t == Strip(token)
        negative == t # <<>> /\ t[1] = "-"
        body == IF negative THEN Tail(t) ELSE t
    IN IF AllDigits(body)
       THEN [ok |-> TRUE,
             value |-> IF negative THEN 0 - DecimalValue(body) ELSE DecimalValue(body)]
       ELSE [ok |-> FALSE, value |-> 0]

\* list(range(lo, hi + 1))
RangeList(lo, hi) == [i \in 1..RangeLen(lo, hi) |-> lo + i - 1]

\* Lines 110-115 for one part: the ids it adds to units, or the ValueError.
PartIds(text) ==
    LET part == Strip(text)
        dash == IndexOf(part, "-")
        lo == IntOf(SubSeq(part, 1, dash - 1))
        hi == IntOf(SubSeq(part, dash + 1, Len(part)))
        one == IntOf(part)
    IN IF dash # 0
       THEN IF lo.ok /\ hi.ok
            THEN [ok |-> TRUE, ids |-> RangeList(lo.value, hi.value)]
            ELSE [ok |-> FALSE, ids |-> <<>>]
       ELSE [ok |-> one.ok, ids |-> IF one.ok THEN <<one.value>> ELSE <<>>]

\* Lines 108-115: the list units after the loop over the parts, in the order
\* of the text and with its repetitions.
RECURSIVE ExtendUnits(_)
ExtendUnits(texts) ==
    IF texts = <<>> THEN [ok |-> TRUE, ids |-> <<>>]
    ELSE LET first == PartIds(texts[1])
             rest == ExtendUnits(Tail(texts))
         IN IF first.ok /\ rest.ok
            THEN [ok |-> TRUE, ids |-> first.ids \o rest.ids]
            ELSE [ok |-> FALSE, ids |-> <<>>]

Elements(q) == {q[i] : i \in 1..Len(q)}

\* A parse_units that returns the list as it was collected.
parse_units_as_collected(text) == ExtendUnits(Split(text, ","))

\* parse_units, lines 107-116.
parse_units(text) ==
    LET collected == ExtendUnits(Split(text, ","))
    IN [ok |-> collected.ok, ids |-> SortedSeq(Elements(collected.ids))]

\* main has the arguments of one call; nothing is parsed yet.
ParseInit ==
    /\ \/ /\ unit_parts \in SeqsUpTo(UnitParts, MaxParts) \ {<<>>}
          /\ \E sep \in {<<",">>, <<",", " ">>} : units_str = SpecText(unit_parts, sep)
       \/ /\ unit_parts = <<>>
          /\ units_str \in MalformedTexts
    /\ mpc = "args"
    /\ client_open = FALSE
    /\ closes = 0

\* main, line 125: units = parse_units(args.units); a ValueError ends main.
ParseUnits ==
    /\ mpc = "args"
    /\ IF parse_units(units_str).ok
       THEN /\ units' = parse_units(units_str).ids
            /\ mpc' = "parsed"
       ELSE /\ mpc' = "failed"
            /\ UNCHANGED units
    /\ UNCHANGED <<unit_parts, units_str, client_open, closes>>
    /\ UNCHANGED <<address_start, address_end, counts, ppc, ui, address, ci,
                   resp, results, attempts, lastRead, sleeps>>
    /\ UNCHANGED besideMain

ParseStart == ParseInit /\ ProbeIdle /\ GuiIdle /\ DecodeIdle /\ SampleIdle /\ CamIdle

ParseSpec == ParseStart /\ [][ParseUnits]_vars

(* ------------------------- main of the probe --------------------------- *)

\* main of modbus_probe.py from line 129 on: the client is made, connected,
\* handed to probe and closed.  The sweep is the one of ProbeSpec; probe is
\* entered when main calls it (line 145).

\* Largest number of triples of a sweep that main starts.
MaxMainSweep == 3

\* main, lines 125-137: the arguments are parsed and the client is made, not
\* connected yet.
MainInit ==
    /\ units \in {SortedSeq(S) : S \in SUBSET (1..MaxUnit)}
    /\ address_start \in 0..MaxAddr
    /\ address_end \in (address_start - 1)..MaxAddr
    /\ counts \in SeqsUpTo(1..MaxCount, MaxCounts)
    /\ Len(units) * RangeLen(address_start, address_end) * Len(counts) <= MaxMainSweep
    /\ ppc = "done"
    /\ ui = 0
    /\ address = 0
    /\ ci = 0
    /\ resp = NoResponse
    /\ results = <<>>
    /\ attempts = <<>>
    /\ lastRead = NoResponse
    /\ sleeps = 0
    /\ unit_parts = <<>>
    /\ units_str = <<>>
    /\ mpc = "parsed"
    /\ client_open = FALSE
    /\ closes = 0

\* main, lines 139-145: client.connect() returns True and probe is called,
\* returns False and main returns, or raises and main ends.
MainConnect ==
    /\ mpc = "parsed"
    /\ \E outcome \in {"true", "false", "raise"} :
        IF outcome = "true"
        THEN /\ client_open' = TRUE
             /\ mpc' = "connected"
             /\ ppc' = "start"
        ELSE /\ mpc' = IF outcome = "false" THEN "refused" ELSE "failed"
             /\ UNCHANGED <<client_open, ppc>>
    /\ UNCHANGED <<unit_parts, units_str, closes>>
    /\ UNCHANGED <<units, address_start, address_end, counts, ui, address, ci,
                   resp, results, attempts, lastRead, sleeps>>
    /\ UNCHANGED besideMain

\* probe, lines 67-88: an exception leaves probe: the handlers of lines 82-87
\* catch Exception around the read only, so a KeyboardInterrupt anywhere and a
\* ValueError of time.sleep (a negative --delay) go up to main.
SweepRaises ==
    /\ mpc = "connected"
    /\ ppc \in {"read", "sleep"}
    /\ ppc' = "raised"
    /\ UNCHANGED mainVars
    /\ UNCHANGED <<units, address_start, address_end, counts, ui, address, ci,
                   resp, results, attempts, lastRead, sleeps>>
    /\ UNCHANGED besideMain

\* A main without the finally clause: client.close() follows probe(...) and
\* is skipped when probe raises.
MainCloseWithoutFinally ==
    /\ mpc = "connected"
    /\ ppc \in {"done", "raised"}
    /\ IF ppc = "done"
       THEN /\ client_open' = FALSE
            /\ closes' = closes + 1
       ELSE UNCHANGED <<client_open, closes>>
    /\ mpc' = "closed"
    /\ UNCHANGED <<unit_parts, units_str>>
    /\ UNCHANGED probeVars
    /\ UNCHANGED besideMain

\* main, lines 146-148: the finally clause closes the client when probe has
\* returned and when it has raised; then main ends.
MainClose ==
    /\ mpc = "connected"
    /\ ppc \in {"done", "raised"}
    /\ client_open' = FALSE
    /\ closes' = closes + 1
    /\ mpc' = "closed"
    /\ UNCHANGED <<unit_parts, units_str>>
    /\ UNCHANGED probeVars
    /\ UNCHANGED besideMain

MainNext ==
    \/ MainConnect
    \/ ProbeStart
    \/ ProbeRead
    \/ ProbeSleep
    \/ SweepRaises
    \/ MainClose

MainStart == MainInit /\ GuiIdle /\ DecodeIdle /\ SampleIdle /\ CamIdle

MainSpec == MainStart /\ [][MainNext]_vars

\* main is one sequential program: it keeps running until it ends.
FairMainSpec == MainSpec /\ WF_vars(MainNext)

(* ------------------------- camera frame hand-off ----------------------- *)

\* The cameras of the viewer: connect_cameras, disconnect_cameras,
\* capture_images and the two stream threads update_camera1 / update_camera2.
\* A with-block on a frame lock is two steps, so that a context waiting for
\* the lock and a context inside the block are states of the model.  The
\* display images a stream posts with root.after (lines 448-472) are not
\* modelled; foreground handlers run one at a time.

FreeStreams == {s \in Streams : stream_pc[s] = "none"}

\* disconnect_cameras, lines 377-392, up to the first with-block.
ReleaseCameras(next) ==
    /\ is_running' = FALSE
    /\ cap' = [c \in Cams |-> FALSE]
    /\ cfg' = "clear_wait"
    /\ cam' = 1
    /\ resume' = next

\* connect_cameras, line 327: the handler starts by disconnecting.
ConnectCameras ==
    /\ cfg = "idle"
    /\ ReleaseCameras("open")
    /\ UNCHANGED <<latest_frame, frame_lock, stream_of, stream_pc, cam_frame, shot, saved>>
    /\ UNCHANGED besideCameras

\* disconnect_cameras, lines 395 and 397: with self.frame_lock1 / 2 waits for
\* the lock.
ClearAcquire ==
    /\ cfg = "clear_wait"
    /\ frame_lock[cam] = "free"
    /\ frame_lock' = [frame_lock EXCEPT ![cam] = "fg"]
    /\ cfg' = "clear_set"
    /\ UNCHANGED <<is_running, cap, latest_frame, stream_of, stream_pc, cam_frame,
                   cam, resume, shot, saved>>
    /\ UNCHANGED besideCameras

\* disconnect_cameras, lines 396 and 398: the stored frame is cleared and the
\* lock released; after the second camera the caller continues.
ClearStore ==
    /\ cfg = "clear_set"
    /\ latest_frame' = [latest_frame EXCEPT ![cam] = None]
    /\ frame_lock' = [frame_lock EXCEPT ![cam] = "free"]
    /\ IF cam = 1
       THEN /\ cam' = 2
            /\ cfg' = "clear_wait"
       ELSE /\ cam' = 1
            /\ cfg' = resume
    /\ UNCHANGED <<is_running, cap, stream_of, stream_pc, cam_frame, resume, shot, saved>>
    /\ UNCHANGED besideCameras

\* connect_cameras, lines 368-369: one thread per camera.
StartStreams ==
    LET s1 == Least(FreeStreams)
        s2 == Least(FreeStreams \ {s1})
    IN /\ stream_of' = [stream_of EXCEPT ![s1] = 1, ![s2] = 2]
       /\ stream_pc' = [stream_pc EXCEPT ![s1] = "test", ![s2] = "test"]

\* connect_cameras, lines 330-373 after the disconnect: a missing URL returns,
\* a camera that does not open or deliver (lines 348-356, 371-373) disconnects
\* again, and two cameras that deliver are streamed.
CamerasOpen ==
    /\ cfg = "open"
    /\ \E outcome \in {"no_url", "failed", "connected"} :
        IF outcome = "no_url"
        THEN /\ cfg' = "idle"
             /\ UNCHANGED <<is_running, cap, stream_of, stream_pc, cam, resume>>
        ELSE IF outcome = "failed"
        THEN /\ ReleaseCameras("idle")
             /\ UNCHANGED <<stream_of, stream_pc>>
        ELSE /\ Cardinality(FreeStreams) >= 2
             /\ cap' = [c \in Cams |-> TRUE]
             /\ is_running' = TRUE
             /\ StartStreams
             /\ cfg' = "idle"
             /\ UNCHANGED <<cam, resume>>
    /\ UNCHANGED <<latest_frame, frame_lock, cam_frame, shot, saved>>
    /\ UNCHANGED besideCameras

\* capture_images, lines 538-544: refused unless the cameras run.
CaptureImages ==
    /\ cfg = "idle"
    /\ is_running
    /\ cfg' = "shot_wait"
    /\ cam' = 1
    /\ UNCHANGED <<is_running, cap, latest_frame, frame_lock, stream_of, stream_pc,
                   cam_frame, resume, shot, saved>>
    /\ UNCHANGED besideCameras

\* capture_images, lines 544 and 546: with self.frame_lock1 / 2 waits for the
\* lock.
ShotAcquire ==
    /\ cfg = "shot_wait"
    /\ frame_lock[cam] = "free"
    /\ frame_lock' = [frame_lock EXCEPT ![cam] = "fg"]
    /\ cfg' = "shot_copy"
    /\ UNCHANGED <<is_running, cap, latest_frame, stream_of, stream_pc, cam_frame,
                   cam, resume, shot, saved>>
    /\ UNCHANGED besideCameras

\* capture_images, lines 545 and 547: the stored frame is copied and the lock
\* released; a copy that raises ends the handler (line 565).
ShotCopy ==
    /\ cfg = "shot_copy"
    /\ frame_lock' = [frame_lock EXCEPT ![cam] = "free"]
    /\ \E copied \in BOOLEAN :
        IF copied
        THEN /\ shot' = [shot EXCEPT ![cam] = latest_frame[cam]]
             /\ IF cam = 1
                THEN /\ cam' = 2
                     /\ cfg' = "shot_wait"
                ELSE /\ cam' = 1
                     /\ cfg' = "save"
        ELSE /\ shot' = [c \in Cams |-> None]
             /\ cam' = 1
             /\ cfg' = "idle"
    /\ UNCHANGED <<is_running, cap, latest_frame, stream_of, stream_pc, cam_frame,
                   resume, saved>>
    /\ UNCHANGED besideCameras

\* capture_images, lines 549-566: both frames are written, or none.
ShotSave ==
    /\ cfg = "save"
    /\ \E written \in BOOLEAN :
        saved' = IF shot[1] # None /\ shot[2] # None /\ written
                 THEN <<shot[1], shot[2]>>
                 ELSE saved
    /\ shot' = [c \in Cams |-> None]
    /\ cfg' = "idle"
    /\ UNCHANGED <<is_running, cap, latest_frame, frame_lock, stream_of, stream_pc,
                   cam_frame, cam, resume>>
    /\ UNCHANGED besideCameras

\* update_camera1 / 2, lines 438 and 479: the loop test; a loop that ends
\* frees its thread.
StreamTest(s) ==
    /\ stream_pc[s] = "test"
    /\ IF is_running /\ cap[stream_of[s]]
       THEN /\ stream_pc' = [stream_pc EXCEPT ![s] = "grab"]
            /\ UNCHANGED stream_of
       ELSE /\ stream_pc' = [stream_pc EXCEPT ![s] = "none"]
            /\ stream_of' = [stream_of EXCEPT ![s] = 0]
    /\ UNCHANGED <<is_running, cap, latest_frame, frame_lock, cam_frame, cfg, cam,
                   resume, shot, saved>>
    /\ UNCHANGED besideCameras

\* update_camera1 / 2, lines 440-441 and 473-477: the capture delivers an
\* image, or the loop breaks (no frame, an exception, a capture forgotten
\* by disconnect_cameras).
StreamGrab(s) ==
    /\ stream_pc[s] = "grab"
    /\ \E image \in {None} \cup (IF cap[stream_of[s]] THEN Images ELSE {}) :
        IF image = None
        THEN /\ stream_pc' = [stream_pc EXCEPT ![s] = "none"]
             /\ stream_of' = [stream_of EXCEPT ![s] = 0]
             /\ UNCHANGED cam_frame
        ELSE /\ stream_pc' = [stream_pc EXCEPT ![s] = "lock"]
             /\ cam_frame' = [cam_frame EXCEPT ![s] = image]
             /\ UNCHANGED stream_of
    /\ UNCHANGED <<is_running, cap, latest_frame, frame_lock, cfg, cam, resume, shot, saved>>
    /\ UNCHANGED besideCameras

\* update_camera1 / 2, line 444: with self.frame_lock1 / 2 waits for the lock.
StreamAcquire(s) ==
    /\ stream_pc[s] = "lock"
    /\ frame_lock[stream_of[s]] = "free"
    /\ frame_lock' = [frame_lock EXCEPT ![stream_of[s]] = "stream"]
    /\ stream_pc' = [stream_pc EXCEPT ![s] = "store"]
    /\ UNCHANGED <<is_running, cap, latest_frame, stream_of, cam_frame, cfg, cam,
                   resume, shot, saved>>
    /\ UNCHANGED besideCameras

\* update_camera1 / 2, lines 445-447: the frame is stored (a copy that raises
\* stores nothing) and the lock released.
StreamStore(s) ==
    /\ stream_pc[s] = "store"
    /\ \E copied \in BOOLEAN :
        latest_frame' = IF copied
                        THEN [latest_frame EXCEPT ![stream_of[s]] = cam_frame[s]]
                        ELSE latest_frame
    /\ frame_lock' = [frame_lock EXCEPT ![stream_of[s]] = "free"]
    /\ cam_frame' = [cam_frame EXCEPT ![s] = None]
    /\ stream_pc' = [stream_pc EXCEPT ![s] = "test"]
    /\ UNCHANGED <<is_running, cap, stream_of, cfg, cam, resume, shot, saved>>
    /\ UNCHANGED besideCameras

StreamStep(s) ==
    \/ StreamTest(s)
    \/ StreamGrab(s)
    \/ StreamAcquire(s)
    \/ StreamStore(s)

CameraNext ==
    \/ ConnectCameras
    \/ ClearAcquire
    \/ ClearStore
    \/ CamerasOpen
    \/ CaptureImages
    \/ ShotAcquire
    \/ ShotCopy
    \/ ShotSave
    \/ \E s \in Streams : StreamStep(s)

CaptureStart == CamIdle /\ GuiIdle /\ ProbeIdle /\ DecodeIdle /\ SampleIdle /\ MainIdle

CaptureSpec == CaptureStart /\ [][CameraNext]_vars

(* ================== further properties of the viewer =================== *)

\* The status texts that report a connection, and those that report a failed
\* attempt ("Status: Connection Failed", "Status: Error").
ConnectedTexts == {"ConnectedASCII", "ConnectedModbus"}
FailedTexts == {"Failed", "Error"}

\* C17 (as claimed): every call of connect_weighbridge returns and leaves the
\* reported connection state at Connected or Failed: not at Connecting, and
\* not at the stale state of an earlier connection whose handle the call has
\* closed (a Connected status on return is that of this call's connection).
C17_ConnectReportsOutcome ==
    [][(fg # "idle" /\ fg' = "idle") =>
        /\ weight_status' \in ConnectedTexts \cup FailedTexts
        /\ weight_status' \in ConnectedTexts => lastConnect' = "connected"
      ]_vars

\* C18 (as claimed): with an unsupported parity, stop-bits or byte-size value
\* configured, opening the link fails: no handle is open, the state is not
\* Connected and no polling loop runs.
C18_UnsupportedParamsRejected ==
    linkParams = "unsupported" =>
        /\ openHandles = {}
        /\ weight_status \notin ConnectedTexts
        /\ Running = {}

\* What disconnect_weighbridge leaves behind.
Released ==
    /\ ~is_weight_connected
    /\ modbus_client = None
    /\ serial_conn = None
    /\ openHandles = {}
    /\ weight_status = "Disconnected"

\* C19: closing is idempotent.  disconnect_weighbridge can be called, and
\* completes, when both handles are null; every call leaves the flag clear,
\* both handles null, no handle open and the status Disconnected; and a call
\* made in the state an earlier call left changes nothing of the
\* connection, the display or the loops.
C19_DisconnectIdempotent ==
    /\ []((fg = "idle" /\ modbus_client = None /\ serial_conn = None)
            => ENABLED Disconnect)
    /\ [][Disconnect => Released']_vars
    /\ [][(Disconnect /\ Released /\ weight_display = 0) =>
            UNCHANGED <<is_weight_connected, modbus_client, serial_conn,
                        openHandles, weight_status, weight_display, queue, pc>>
         ]_vars

\* disconnect_weighbridge has acted on a connection (its loop is still on its
\* way to the loop test) and everything is released: the state in which a
\* second call finds both handles null.
C19_Witness ==
    /\ Released
    /\ lastConnect = "none"
    /\ \E t \in Threads : cancelReq[t] /\ pc[t] # "none"

\* The moves of the ASCII loop around a failed read: a read that raised goes
\* to the error wait (0.2 s), the error wait goes back to the loop test, the
\* loop test goes to another read whenever the flag is set and the serial
\* handle non-null, and the loop ends nowhere but at a loop test that found
\* the flag clear or the handle null.
AsciiRetryMoves(t) ==
    /\ (pc[t] = "read" /\ pc'[t] # "read") => pc'[t] \in {"errwait", "check"}
    /\ (pc[t] = "read" /\ fails'[t] > fails[t]) => pc'[t] = "errwait"
    /\ (pc[t] = "errwait" /\ pc'[t] # "errwait") => pc'[t] = "check"
    /\ (pc[t] = "check" /\ pc'[t] # "check" /\ LoopCondition) => pc'[t] = "read"
    /\ (pc[t] # "none" /\ pc'[t] = "none") => (pc[t] = "check" /\ ~LoopCondition)

\* C20: while the flag stays set and the serial handle is non-null the ASCII
\* loop is not ended by read failures: every exception of a read is followed
\* by the 0.2 s wait and then, unless the flag was cleared or the handle
\* nulled meanwhile, by another read, for any number of exceptions in a row.
C20_AsciiRetriesForever ==
    /\ [][\A t \in Threads : weighbridge_protocol = "ascii" => AsciiRetryMoves(t)]_vars
    /\ \A t \in Threads :
        (weighbridge_protocol = "ascii" /\ pc[t] = "errwait")
            ~> (pc[t] = "read" \/ ~LoopCondition)

\* After MaxFails reads in a row that raised, each followed by its wait, the
\* ASCII loop issues another read.
C20_Witness ==
    \E t \in Threads :
        /\ weighbridge_protocol = "ascii"
        /\ fails[t] = MaxFails
        /\ pc[t] = "read"
        /\ LoopCondition
        /\ serial_conn \in openHandles

\* The lines a cycle of the ASCII loop discards: nothing read (line 198), no
\* match of the pattern (line 205), a matched token float() rejects (line 210).
DiscardedKinds == {"empty", "nomatch", "badfloat"}

\* C21: in the ASCII loop a cycle whose line is empty, does not match the
\* extraction pattern, or whose matched token does not parse as a number
\* delivers no sample (nothing is posted), changes no state (connection,
\* status, display, the other loop, the failure history) and raises nothing
\* (it does not go to the error wait): it goes straight back to the loop
\* test, from where the loop's only move, flag set and handle non-null, is
\* the next read.
C21_DiscardedLineIsSilent ==
    [][\A t \in Threads :
        /\ (pc[t] = "read" /\ data'[t].kind \in DiscardedKinds) =>
            /\ pc' = [pc EXCEPT ![t] = "check"]
            /\ UNCHANGED <<queue, weight_display, weight_status, is_weight_connected,
                           modbus_client, serial_conn, openHandles, fails,
                           weight_value, lastConnect>>
        /\ (pc[t] = "check" /\ data[t].kind \in DiscardedKinds /\ LoopCondition
                /\ pc'[t] # "check") => pc'[t] = "read"
      ]_vars

\* A cycle has just discarded a token that is no number, after an earlier
\* sample was shown: the display still shows it and the loop is at its loop
\* test with flag and handle set.
C21_Witness ==
    \E t \in Threads :
        /\ pc[t] = "check"
        /\ data[t].kind = "badfloat"
        /\ LoopCondition
        /\ weight_display = 1
        /\ queue = <<>>

\* C22: at most one of the two client types is active at any time, after any
\* sequence of connect and disconnect calls: modbus_client and serial_conn
\* are never both non-null, and no Modbus polling loop runs at the same time
\* as an ASCII polling loop (all running loops have the target function of
\* the protocol fixed at construction).
C22_OneClientType ==
    /\ ~(modbus_client # None /\ serial_conn # None)
    /\ \A t, u \in Running : target[t] = target[u]
    /\ \A t \in Running : target[t] = weighbridge_protocol
    /\ modbus_client # None => weighbridge_protocol = "modbus"
    /\ serial_conn # None => weighbridge_protocol = "ascii"

\* After a reconnect two loops run; both are ASCII loops, the serial handle
\* is set and the Modbus client is null.
C22_Witness ==
    /\ Cardinality(Running) = 2
    /\ \A t \in Running : target[t] = "ascii"
    /\ serial_conn # None
    /\ modbus_client = None
    /\ lastConnect = "connected"

\* The contexts inside a with-block on the lock of camera c.
InsideLock(c) ==
    {s \in Streams : stream_of[s] = c /\ stream_pc[s] = "store"}
    \cup (IF cam = c /\ cfg \in {"clear_set", "shot_copy"} THEN {0} ELSE {})

\* A stored camera frame is written (lines 445, 396) and copied out (lines
\* 545, 547) only by the context that holds the lock of that camera, and one
\* context at most is inside a with-block on it.
FrameAccessGuarded ==
    /\ \A c \in Cams :
        /\ Cardinality(InsideLock(c)) <= 1
        /\ (frame_lock[c] = "free") = (InsideLock(c) = {})
        /\ (frame_lock[c] = "fg") = (0 \in InsideLock(c))
    /\ \A c \in Cams :
        /\ latest_frame'[c] # latest_frame[c] =>
               /\ frame_lock[c] # "free"
               /\ frame_lock'[c] = "free"
        /\ (shot'[c] # shot[c] /\ shot'[c] # None) => frame_lock[c] = "fg"

\* The loop of thread t stores a new sample in its variable weight_value
\* (line 173).
SampleWritten(t) == pc[t] = "read" /\ weight_value'[t] # weight_value[t]

\* The foreground runs the callback of line 176, which reads weight_value of
\* thread t.
SampleRead(t) ==
    /\ queue # <<>>
    /\ queue' = Tail(queue)
    /\ Head(queue).k = "weight"
    /\ Head(queue).t = t

\* C23: every value a background context hands to the foreground, the weight
\* sample as well as the camera frame, is written and read inside a guarded
\* region: while a lock of the program is held.
C23_HandoffGuarded ==
    [][/\ FrameAccessGuarded
       /\ \A t \in Threads :
            (SampleWritten(t) \/ SampleRead(t)) => \E c \in Cams : frame_lock[c] # "free"
      ]_vars

\* The camera half of C23 by itself.
FrameHandoffGuarded == [][FrameAccessGuarded]_vars

\* A capture has copied a frame a stream stored, while a stream waits for the
\* lock the capture held.
FrameHandoffSeen ==
    /\ cfg = "save"
    /\ shot[1] # None
    /\ shot[2] # None
    /\ \E s \in Streams : stream_pc[s] = "lock"

\* The ids a specification denotes: each literal, and each id of each range,
\* ends included.
Denoted(parts) ==
    UNION {IF parts[i].kind = "literal" THEN {parts[i].lo} ELSE parts[i].lo..parts[i].hi
           : i \in 1..Len(parts)}

\* C24: parse_units of the text of a specification (literals and inclusive
\* ranges separated by commas, in any order, overlapping or not) is the list
\* of exactly the ids the specification denotes, strictly ascending; it is
\* the list units that main hands to the sweep.
C24_ParseUnitsSortedSet ==
    (mpc = "parsed" /\ unit_parts # <<>>) =>
        /\ Elements(units) = Denoted(unit_parts)
        /\ \A i \in 1..(Len(units) - 1) : units[i] < units[i + 1]

\* "9,3-5,3" (parts out of order, one id given twice) has been parsed.
C24_Witness ==
    /\ mpc = "parsed"
    /\ unit_parts = <<Literal(9), RangePart(3, 5), Literal(3)>>
    /\ units = <<3, 4, 5, 9>>

HandleOpen == modbus_client \in openHandles \/ serial_conn \in openHandles

\* C26 (as claimed): whenever the foreground is idle and no posted callback
\* is pending, the displayed status is a Connected status if and only if a
\* weighbridge handle is open and is_weight_connected is set.
C26_StatusAgreesWithConnection ==
    (fg = "idle" /\ queue = <<>>) =>
        ((weight_status \in ConnectedTexts) <=> (HandleOpen /\ is_weight_connected))

\* C27: the probe program releases its handle.  A read is issued only
\* between a connect that succeeded and the close; the client is closed once
\* at most, and is closed once when main has ended after a connect that
\* succeeded, whether probe returned or raised; a main whose connect failed
\* has issued no read and made no close; and a connected main comes to its
\* end.
C27_HandleReleasedOnce ==
    /\ [][attempts' # attempts => (mpc = "connected" /\ client_open /\ closes = 0)]_vars
    /\ [](closes <= 1)
    /\ [](mpc = "closed" => (closes = 1 /\ ~client_open))
    /\ [](mpc = "connected" => (closes = 0 /\ client_open))
    /\ [](mpc \in {"refused", "failed"} => (attempts = <<>> /\ closes = 0))
    /\ (mpc = "connected") ~> (mpc = "closed")

\* main has ended after a sweep that issued a read and then raised, and the
\* client has been closed.
C27_Witness ==
    /\ mpc = "closed"
    /\ ppc = "raised"
    /\ attempts # <<>>
    /\ closes = 1

====
